---- MODULE Spec2Model ----
(***************************************************************************)
(* Model of src/static/app.js: the browser client of the activity          *)
(* directory.  The client is single-threaded and event-driven: every       *)
(* action below is one task of the event loop (a user event, the arrival   *)
(* of a response, the expiry of a timer) or one microtask (the resumption  *)
(* of an async function after an await).  The server behind the three      *)
(* endpoints is not part of app.js; it is modelled from the endpoint       *)
(* contract as a store of rosters that answers requests one at a time.     *)
(***************************************************************************)
EXTENDS Integers, Sequences, FiniteSets, TLC

\* ---------------------------------------------------------------- bounds
\* Number of user-triggered handlers (form submissions and delete clicks).
MaxEvents == 2
\* Longest roster the server admits.
MaxRoster == 2

\* ------------------------------------------------------------ input data
Emails == {"a@x.com", "b@x.com"}

\* What the user types into the email field.
FormEmails == {"a@x.com"}

\* The texts a rejecting server may send as `detail`: absent (<<>>), present
\* and empty, or present and non-empty.
Details == {<<>>, <<"">>, <<"Activity is full">>}

\* The activities the server may offer, in the order of its JSON object.
\* max_participants of the first is below MaxRoster, so the server can
\* over-admit it.
Catalogue ==
  << [name |-> "Chess Club", max_participants |-> 1],
     [name |-> "Gym Class", max_participants |-> 3] >>

Activity(k, participants) ==
  [name |-> Catalogue[k].name,
   max_participants |-> Catalogue[k].max_participants,
   participants |-> participants]

\* The collections the server may hold when the page loads: none, one
\* activity, or two of which one is full and the other empty.
InitialCollections ==
  { <<>>,
    << Activity(1, <<"a@x.com">>) >>,
    << Activity(1, <<"b@x.com">>), Activity(2, <<>>) >> }

\* Every value an option of the selection control can have.
OptionValues == {""} \cup {Catalogue[k].name : k \in 1..Len(Catalogue)}

VARIABLES
  server,          \* the server's activity collection (sequence of activities)
  requests,        \* handler id -> the request that handler has in flight
  microtask,       \* id of the signup handler about to resume, 0 if none
  nextId,          \* id the next handler will get
  activitiesList,  \* #activities-list: loading text, cards, or failure notice
  activitySelect,  \* #activity: the option values, in order
  selected,        \* #activity's current value
  emailField,      \* #email's current value
  messageDiv,      \* #message: textContent, className, hidden class, setter
  timers,          \* pending hide timers (handler ids), oldest first
  loads,           \* history: calls of fetchActivities so far, and the call
                   \* whose response the views were last rebuilt from
  lastStep         \* the step just taken (history)

vars == << server, requests, microtask, nextId, activitiesList, activitySelect,
           selected, emailField, messageDiv, timers, loads, lastStep >>

InitLoad == 0

NoResponse == [ok |-> FALSE, message |-> "", detail |-> <<>>, activities |-> <<>>]

Range(s) == {s[i] : i \in DOMAIN s}

\* ------------------------------------------------- rendering (pure parts)
\* Remaining capacity clamped at zero, as Math.max(0, ...) would give.
ClampedSpotsLeft(details) ==
  IF details.max_participants < Len(details.participants)
  THEN 0 ELSE details.max_participants - Len(details.participants)

\* Line 28: remaining capacity, a plain subtraction.
SpotsLeft(details) == details.max_participants - Len(details.participants)

\* Lines 43-114: one row with a delete control per participant, in order;
\* a single placeholder row when there is none.
ParticipantRows(details) == details.participants

\* The list left empty when there is no participant, as without the else
\* branch of lines 109-114.
NeverPlaceholder(details) == FALSE

\* Lines 46, 109-114: the placeholder row.
NoParticipantsRow(details) == Len(details.participants) = 0

\* Lines 61-105: the rows of a card that carry a delete control, every
\* participant row and never the placeholder.
DeleteControls(card) == 1..Len(card.rows)

\* Lines 24-117: the card of one entry of the response.
ActivityCard(details) ==
  [name |-> details.name,
   spotsLeft |-> SpotsLeft(details),
   rows |-> ParticipantRows(details),
   placeholder |-> NoParticipantsRow(details)]

\* The cards left in place, as without line 14.
KeepList(cards) == cards

\* Line 14: activitiesList.innerHTML = "".
ClearList(cards) == <<>>

\* Lines 14, 24-117: the detail list after a render of `activities`.
RenderList(old, activities) ==
  [kind |-> "cards",
   cards |-> ClearList(old.cards)
             \o [i \in 1..Len(activities) |-> ActivityCard(activities[i])]]

\* The options left in place, as without line 17.
KeepSelect(options) == options

\* Line 17: activitySelect.innerHTML = "".
ClearSelect(options) == <<>>

\* Lines 17-21, 119-123: placeholder option, then one option per entry.
RenderSelect(old, activities) ==
  ClearSelect(old) \o <<"">>
    \o [i \in 1..Len(activities) |-> activities[i].name]

\* Line 126: the static failure notice replaces the list's content.
FailureNotice == [kind |-> "failed", cards |-> <<>>]

\* ------------------------------------------------------ the status message
\* textContent and className are assigned; assigning className drops the
\* "hidden" class, so the message is visible from that assignment on.
ShowMessage(text, class, id) ==
  [textContent |-> text, className |-> class, hidden |-> FALSE, owner |-> id]

\* messageDiv.classList.remove("hidden")
RemoveHidden(m) == [m EXCEPT !.hidden = FALSE]

\* messageDiv.classList.add("hidden")
AddHidden(m) == [m EXCEPT !.hidden = TRUE]

\* The fallback shown whatever the response carries.
FallbackOnly(detail, fallback) == fallback

\* result.detail || fallback: the fallback replaces an absent detail and an
\* empty one alike.
DetailOr(detail, fallback) ==
  IF detail # <<>> /\ detail[1] # "" THEN detail[1] ELSE fallback

SignupFallback == "An error occurred"
UnregisterFallback == "Failed to unregister"
SignupGeneric == "Failed to sign up. Please try again."
UnregisterGeneric == "Failed to unregister. Please try again."

\* ---------------------------------------------------------------- requests
\* Every string the client may put into a URL.
UrlTexts == OptionValues \cup Emails

\* Lines 72, 140: encodeURIComponent on the texts in use. Letters, digits
\* and "." pass; the space becomes %20 and "@" becomes %40.
EncodeURIComponent(text) ==
  CASE text = "Chess Club" -> "Chess%20Club"
    [] text = "Gym Class" -> "Gym%20Class"
    [] text = "a@x.com" -> "a%40x.com"
    [] text = "b@x.com" -> "b%40x.com"
    [] OTHER -> text

\* The server's percent-decoding of a path segment or query value.
PercentDecode(encoded) ==
  CHOOSE text \in UrlTexts : EncodeURIComponent(text) = encoded

\* The request a handler has in flight. `shown`, `target` and `expect` are
\* history kept for the unregister handler: the rows on display when the
\* delete control was clicked, the card and row clicked, and the server's
\* rosters right after the removal (none once they were changed otherwise).
\* `issued` numbers the calls of fetchActivities in the order they are made.
\* The activity and the email travel percent-encoded in the URL.
Request(handler, kind, activity, email) ==
  [handler |-> handler, kind |-> kind,
   activity |-> EncodeURIComponent(activity),
   email |-> EncodeURIComponent(email),
   status |-> "sent", awaited |-> FALSE, resp |-> NoResponse,
   shown |-> <<>>, target |-> <<>>, expect |-> <<>>, issued |-> 0]

\* The participant rows of every card on display, by activity.
RowsOfCards(cards) ==
  [k \in 1..Len(cards) |-> [name |-> cards[k].name, rows |-> cards[k].rows]]

\* The same view of a collection held or sent by the server.
RowsOfCollection(activities) ==
  [k \in 1..Len(activities) |->
     [name |-> activities[k].name, rows |-> activities[k].participants]]

\* fetch("/activities") issued by handler `id`; `awaited` when the caller
\* awaits the returned promise (line 154) rather than dropping it (line 85).
GetRequest(r, awaited) ==
  [r EXCEPT !.kind = "GET", !.status = "sent", !.awaited = awaited,
            !.resp = NoResponse]

Without(f, i) == [j \in DOMAIN f \ {i} |-> f[j]]

InFlight(i, kind) == i \in DOMAIN requests /\ requests[i].kind = kind

Answered(i, kind) == InFlight(i, kind) /\ requests[i].status = "answered"

\* The record of a step: the action and the handler it belongs to. For a
\* render: whether it completes an unregister whose removal was the only
\* change to the rosters since the click (undisturbed), and whether it
\* replaces views built from a call of fetchActivities made later than its
\* own (stale). For a render or a failed load: the selection before it.
Step(act, id) ==
  [act |-> act, id |-> id, undisturbed |-> FALSE, stale |-> FALSE,
   was |-> ""]

\* ------------------------------------------------------------------ server
IndexOf(activities, name) ==
  {k \in 1..Len(activities) : activities[k].name = name}

RemoveAt(s, k) == [j \in 1..(Len(s) - 1) |-> IF j < k THEN s[j] ELSE s[j + 1]]

FirstIndex(s, x) ==
  CHOOSE k \in 1..Len(s) : s[k] = x /\ \A j \in 1..(k - 1) : s[j] # x

\* GET /activities: the whole collection as it is now.
ServerList(i) ==
  /\ InFlight(i, "GET") /\ requests[i].status = "sent"
  /\ requests' = [requests EXCEPT ![i].status = "answered",
                     ![i].resp = [NoResponse EXCEPT !.ok = TRUE,
                                                    !.activities = server],
                     ![i].expect =
                        IF @ = << RowsOfCollection(server) >> THEN @ ELSE <<>>]
  /\ lastStep' = Step("ServerList", i)
  /\ UNCHANGED << loads, server, microtask, nextId, activitiesList, activitySelect,
                  selected, emailField, messageDiv, timers >>

\* POST .../signup accepted: the email is appended to the roster.
ServerSignup(i) ==
  /\ InFlight(i, "POST") /\ requests[i].status = "sent"
  /\ PercentDecode(requests[i].email) \in Emails
  /\ \E k \in IndexOf(server, PercentDecode(requests[i].activity)) :
       /\ Len(server[k].participants) < MaxRoster
       /\ server' = [server EXCEPT ![k].participants =
                        Append(@, PercentDecode(requests[i].email))]
  /\ requests' = [requests EXCEPT ![i].status = "answered",
                     ![i].resp = [NoResponse EXCEPT !.ok = TRUE,
                                                    !.message = "Signed up"]]
  /\ lastStep' = Step("ServerSignup", i)
  /\ UNCHANGED << loads, microtask, nextId, activitiesList, activitySelect,
                  selected, emailField, messageDiv, timers >>

\* DELETE .../unregister accepted: the first occurrence of the email leaves
\* the roster.
ServerUnregister(i) ==
  /\ InFlight(i, "DELETE") /\ requests[i].status = "sent"
  /\ \E k \in IndexOf(server, PercentDecode(requests[i].activity)) :
       /\ PercentDecode(requests[i].email) \in Range(server[k].participants)
       /\ server' = [server EXCEPT ![k].participants =
                        RemoveAt(@, FirstIndex(@,
                                     PercentDecode(requests[i].email)))]
  /\ requests' = [requests EXCEPT ![i].status = "answered",
                     ![i].resp = [NoResponse EXCEPT !.ok = TRUE,
                                                    !.message = "Unregistered"],
                     ![i].expect =
                        IF RowsOfCollection(server) = requests[i].shown
                        THEN << RowsOfCollection(server') >> ELSE <<>>]
  /\ lastStep' = Step("ServerUnregister", i)
  /\ UNCHANGED << loads, microtask, nextId, activitiesList, activitySelect,
                  selected, emailField, messageDiv, timers >>

\* A non-success status with a JSON body, with or without a detail.
ServerReject(i, d) ==
  /\ i \in DOMAIN requests
  /\ requests[i].kind \in {"POST", "DELETE"} /\ requests[i].status = "sent"
  /\ requests' = [requests EXCEPT ![i].status = "answered",
                     ![i].resp = [NoResponse EXCEPT !.detail = d]]
  /\ lastStep' = Step("ServerReject", i)
  /\ UNCHANGED << loads, server, microtask, nextId, activitiesList, activitySelect,
                  selected, emailField, messageDiv, timers >>

\* -------------------------------------------------------------- user input
\* The event loop runs a task only when no microtask is pending.
Idle == microtask = 0

\* ------------------------------------------------- signup (lines 132-172)
\* Lines 132-144: the user has filled in an email and chosen an option; the
\* submit handler reads both fields and sends the POST.
Submit(e, o) ==
  /\ Idle /\ nextId <= MaxEvents
  /\ o \in Range(activitySelect)
  /\ emailField' = e /\ selected' = o
  /\ requests' = (nextId :> Request("signup", "POST", o, e))
                    @@ requests
  /\ nextId' = nextId + 1
  /\ lastStep' = Step("Submit", nextId)
  /\ UNCHANGED << loads, server, microtask, activitiesList, activitySelect,
                  messageDiv, timers >>

\* The control left as it is, as without line 151.
KeepField(value) == value

\* Line 151: signupForm.reset() puts a control back to its default value,
\* the empty email and the placeholder option.
ResetField(value) == ""

\* The success branch calling fetchActivities() without `await`, as the
\* unregister handler does: the timer is set in the same task.
SignupSucceedsNotAwaiting(i) ==
  /\ Idle /\ Answered(i, "POST") /\ requests[i].resp.ok
  /\ messageDiv' = ShowMessage(requests[i].resp.message, "success", i)
  /\ emailField' = ""
  /\ selected' = ""
  /\ requests' = [requests EXCEPT ![i] =
                     [GetRequest(@, FALSE) EXCEPT !.issued = loads.issued + 1]]
  /\ loads' = [loads EXCEPT !.issued = @ + 1]
  /\ timers' = Append(timers, i)
  /\ lastStep' = Step("SignupSucceeds", i)
  /\ UNCHANGED << server, microtask, nextId, activitiesList, activitySelect >>

\* Lines 148-154: response.ok. The message is set, the form is reset, and
\* fetchActivities() runs up to its first await (the GET is sent); the
\* handler then waits for fetchActivities to settle.
SignupSucceeds(i) ==
  /\ Idle /\ Answered(i, "POST") /\ requests[i].resp.ok
  /\ messageDiv' = ShowMessage(requests[i].resp.message, "success", i)
  /\ emailField' = ResetField(emailField)
  /\ selected' = ResetField(selected)
  /\ requests' = [requests EXCEPT ![i] =
                     [GetRequest(@, TRUE) EXCEPT !.issued = loads.issued + 1]]
  /\ loads' = [loads EXCEPT !.issued = @ + 1]
  /\ lastStep' = Step("SignupSucceeds", i)
  /\ UNCHANGED << server, microtask, nextId, activitiesList, activitySelect,
                  timers >>

\* Lines 160-165, reached after line 154: the handler resumes as a
\* microtask of the task that settled fetchActivities.
SignupResumes ==
  /\ microtask # 0
  /\ messageDiv' = RemoveHidden(messageDiv)
  /\ timers' = Append(timers, microtask)
  /\ microtask' = 0
  /\ lastStep' = Step("SignupResumes", microtask)
  /\ UNCHANGED << loads, server, requests, nextId, activitiesList, activitySelect,
                  selected, emailField >>

\* Lines 155-165: a non-success status.
SignupRejected(i) ==
  /\ Idle /\ Answered(i, "POST") /\ ~requests[i].resp.ok
  /\ messageDiv' = ShowMessage(DetailOr(requests[i].resp.detail, SignupFallback),
                               "error", i)
  /\ timers' = Append(timers, i)
  /\ requests' = Without(requests, i)
  /\ lastStep' = Step("SignupRejected", i)
  /\ UNCHANGED << loads, server, microtask, nextId, activitiesList, activitySelect,
                  selected, emailField >>

\* The same failure with no catch block: the exception leaves the handler
\* and the message box is not touched.
SignupFailsUncaught(i) ==
  /\ Idle /\ InFlight(i, "POST")
  /\ requests' = Without(requests, i)
  /\ lastStep' = Step("SignupFails", i)
  /\ UNCHANGED << loads, server, microtask, nextId, activitiesList, activitySelect,
                  selected, emailField, messageDiv, timers >>

\* Lines 166-171: fetch rejected or response.json() threw. No timer is set.
SignupFails(i) ==
  /\ Idle /\ InFlight(i, "POST")
  /\ messageDiv' = ShowMessage(SignupGeneric, "error", i)
  /\ requests' = Without(requests, i)
  /\ lastStep' = Step("SignupFails", i)
  /\ UNCHANGED << loads, server, microtask, nextId, activitiesList, activitySelect,
                  selected, emailField, timers >>

\* --------------------------------------------- unregister (lines 66-103)
\* The click handler sending the card's first participant whichever row was
\* clicked, as a handler closing over the wrong variable would.
ClickDeleteFirstRow(c, r) ==
  /\ Idle /\ nextId <= MaxEvents
  /\ activitiesList.kind = "cards"
  /\ c \in 1..Len(activitiesList.cards)
  /\ r \in DeleteControls(activitiesList.cards[c])
  /\ requests' = (nextId :>
                     [Request("unregister", "DELETE",
                              activitiesList.cards[c].name,
                              activitiesList.cards[c].rows[1])
                        EXCEPT !.shown = RowsOfCards(activitiesList.cards),
                               !.target = << c, r >>])
                    @@ requests
  /\ nextId' = nextId + 1
  /\ lastStep' = Step("ClickDelete", nextId)
  /\ UNCHANGED << loads, server, microtask, activitiesList, activitySelect, selected,
                  emailField, messageDiv, timers >>

\* Lines 66-76: the click handler of the delete control of row r of card c
\* sends the DELETE for the name and participant captured at render time.
ClickDelete(c, r) ==
  /\ Idle /\ nextId <= MaxEvents
  /\ activitiesList.kind = "cards"
  /\ c \in 1..Len(activitiesList.cards)
  /\ r \in DeleteControls(activitiesList.cards[c])
  /\ requests' = (nextId :>
                     [Request("unregister", "DELETE",
                              activitiesList.cards[c].name,
                              activitiesList.cards[c].rows[r])
                        EXCEPT !.shown = RowsOfCards(activitiesList.cards),
                               !.target = << c, r >>])
                    @@ requests
  /\ nextId' = nextId + 1
  /\ lastStep' = Step("ClickDelete", nextId)
  /\ UNCHANGED << loads, server, microtask, activitiesList, activitySelect, selected,
                  emailField, messageDiv, timers >>

\* The success branch without the call of line 85.
UnregisterSucceedsNoReload(i) ==
  /\ Idle /\ Answered(i, "DELETE") /\ requests[i].resp.ok
  /\ messageDiv' = ShowMessage(requests[i].resp.message, "success", i)
  /\ requests' = Without(requests, i)
  /\ timers' = Append(timers, i)
  /\ lastStep' = Step("UnregisterSucceeds", i)
  /\ UNCHANGED << loads, server, microtask, nextId, activitiesList, activitySelect,
                  selected, emailField >>

\* Lines 80-85, 91-96: response.ok. fetchActivities() is called and not
\* awaited, so the timer is set in the same task.
UnregisterSucceeds(i) ==
  /\ Idle /\ Answered(i, "DELETE") /\ requests[i].resp.ok
  /\ messageDiv' = ShowMessage(requests[i].resp.message, "success", i)
  /\ requests' = [requests EXCEPT ![i] =
                     [GetRequest(@, FALSE) EXCEPT !.issued = loads.issued + 1]]
  /\ loads' = [loads EXCEPT !.issued = @ + 1]
  /\ timers' = Append(timers, i)
  /\ lastStep' = Step("UnregisterSucceeds", i)
  /\ UNCHANGED << server, microtask, nextId, activitiesList, activitySelect,
                  selected, emailField >>

\* The same branch with the pending timers cleared before the new one is
\* set, as a handler keeping the timer id and calling clearTimeout would.
UnregisterRejectedClearingTimers(i) ==
  /\ Idle /\ Answered(i, "DELETE") /\ ~requests[i].resp.ok
  /\ messageDiv' = ShowMessage(DetailOr(requests[i].resp.detail,
                                        UnregisterFallback), "error", i)
  /\ timers' = << i >>
  /\ requests' = Without(requests, i)
  /\ lastStep' = Step("UnregisterRejected", i)
  /\ UNCHANGED << loads, server, microtask, nextId, activitiesList,
                  activitySelect, selected, emailField >>

\* Lines 86-96: a non-success status.
UnregisterRejected(i) ==
  /\ Idle /\ Answered(i, "DELETE") /\ ~requests[i].resp.ok
  /\ messageDiv' = ShowMessage(DetailOr(requests[i].resp.detail,
                                        UnregisterFallback), "error", i)
  /\ timers' = Append(timers, i)
  /\ requests' = Without(requests, i)
  /\ lastStep' = Step("UnregisterRejected", i)
  /\ UNCHANGED << loads, server, microtask, nextId, activitiesList, activitySelect,
                  selected, emailField >>

\* The same failure with no catch block: the exception leaves the handler
\* and the message box is not touched.
UnregisterFailsUncaught(i) ==
  /\ Idle /\ InFlight(i, "DELETE")
  /\ requests' = Without(requests, i)
  /\ lastStep' = Step("UnregisterFails", i)
  /\ UNCHANGED << loads, server, microtask, nextId, activitiesList, activitySelect,
                  selected, emailField, messageDiv, timers >>

\* Lines 97-102: fetch rejected or response.json() threw. No timer is set.
UnregisterFails(i) ==
  /\ Idle /\ InFlight(i, "DELETE")
  /\ messageDiv' = ShowMessage(UnregisterGeneric, "error", i)
  /\ requests' = Without(requests, i)
  /\ lastStep' = Step("UnregisterFails", i)
  /\ UNCHANGED << loads, server, microtask, nextId, activitiesList, activitySelect,
                  selected, emailField, timers >>

\* ------------------------------------------- fetchActivities (lines 8-129)
\* What settles the promise of fetchActivities: the awaiting signup handler,
\* if any, is queued as the next microtask.
Settle(i) == IF requests[i].awaited THEN i ELSE 0

\* A render that drops the response of a call made before the one the views
\* were last rebuilt from, as a client numbering its requests would.
LoadRendersIfNewest(i) ==
  /\ Idle /\ Answered(i, "GET")
  /\ IF requests[i].issued < loads.shown
     THEN UNCHANGED << activitiesList, activitySelect, selected, loads >>
     ELSE /\ activitiesList' =
               RenderList(activitiesList, requests[i].resp.activities)
          /\ activitySelect' =
               RenderSelect(activitySelect, requests[i].resp.activities)
          /\ selected' = ""
          /\ loads' = [loads EXCEPT !.shown = requests[i].issued]
  /\ microtask' = Settle(i)
  /\ requests' = Without(requests, i)
  /\ lastStep' = [Step("LoadRenders", i) EXCEPT !.was = selected]
  /\ UNCHANGED << server, nextId, emailField, messageDiv, timers >>

\* A render that puts the user's selection back when the rebuilt control
\* still offers it.
LoadRendersKeepingSelection(i) ==
  /\ Idle /\ Answered(i, "GET")
  /\ activitiesList' = RenderList(activitiesList, requests[i].resp.activities)
  /\ activitySelect' = RenderSelect(activitySelect, requests[i].resp.activities)
  /\ selected' = IF selected \in Range(activitySelect') THEN selected ELSE ""
  /\ microtask' = Settle(i)
  /\ requests' = Without(requests, i)
  /\ loads' = [loads EXCEPT !.shown = requests[i].issued]
  /\ lastStep' = [Step("LoadRenders", i) EXCEPT
                    !.undisturbed = requests[i].handler = "unregister"
                                      /\ requests[i].expect # <<>>,
                    !.stale = activitiesList.kind = "cards"
                                /\ loads.shown > requests[i].issued,
                    !.was = selected]
  /\ UNCHANGED << server, nextId, emailField, messageDiv, timers >>

\* Lines 10-124: the response arrived and parsed; both views are cleared and
\* rebuilt from it in one task. Rebuilding the options leaves the
\* placeholder selected.
LoadRenders(i) ==
  /\ Idle /\ Answered(i, "GET")
  /\ activitiesList' = RenderList(activitiesList, requests[i].resp.activities)
  /\ activitySelect' = RenderSelect(activitySelect, requests[i].resp.activities)
  /\ selected' = ""
  /\ microtask' = Settle(i)
  /\ requests' = Without(requests, i)
  /\ loads' = [loads EXCEPT !.shown = requests[i].issued]
  /\ lastStep' = [Step("LoadRenders", i) EXCEPT
                    !.undisturbed = requests[i].handler = "unregister"
                                      /\ requests[i].expect # <<>>,
                    !.stale = activitiesList.kind = "cards"
                                /\ loads.shown > requests[i].issued,
                    !.was = selected]
  /\ UNCHANGED << server, nextId, emailField, messageDiv, timers >>

\* The failure handled after the views were cleared, as if lines 14-21 ran
\* before the request.
LoadFailsAfterClearing(i) ==
  /\ Idle /\ InFlight(i, "GET")
  /\ activitiesList' = FailureNotice
  /\ activitySelect' = <<"">>
  /\ selected' = ""
  /\ microtask' = Settle(i)
  /\ requests' = Without(requests, i)
  /\ lastStep' = Step("LoadFails", i)
  /\ UNCHANGED << loads, server, nextId, emailField, messageDiv, timers >>

\* Lines 125-128: fetch rejected or response.json() threw, before line 14.
LoadFails(i) ==
  /\ Idle /\ InFlight(i, "GET")
  /\ activitiesList' = FailureNotice
  /\ microtask' = Settle(i)
  /\ requests' = Without(requests, i)
  /\ lastStep' = [Step("LoadFails", i) EXCEPT !.was = selected]
  /\ UNCHANGED << loads, server, nextId, activitySelect, selected, emailField,
                  messageDiv, timers >>

\* ------------------------------------------------------------- hide timers
\* Lines 94-96, 163-165: every timer has the same delay, so they expire in
\* the order they were set; none is ever cleared.
TimerFires ==
  /\ Idle /\ timers # <<>>
  /\ messageDiv' = AddHidden(messageDiv)
  /\ timers' = Tail(timers)
  /\ lastStep' = Step("TimerFires", Head(timers))
  /\ UNCHANGED << loads, server, requests, microtask, nextId, activitiesList,
                  activitySelect, selected, emailField >>

\* ------------------------------------------------------------ specification
\* Lines 1-5, 174-175: the page's markup has the loading text in the list,
\* the placeholder option in the selection control, empty fields and a
\* hidden message box; fetchActivities() is called once.
Init ==
  /\ server \in InitialCollections
  /\ requests = (InitLoad :> [Request("init", "GET", "", "")
                                EXCEPT !.issued = 1])
  /\ microtask = 0
  /\ nextId = 1
  /\ activitiesList = [kind |-> "loading", cards |-> <<>>]
  /\ activitySelect = <<"">>
  /\ selected = ""
  /\ emailField = ""
  /\ messageDiv = [textContent |-> "", className |-> "", hidden |-> TRUE,
                   owner |-> 0]
  /\ timers = <<>>
  /\ loads = [issued |-> 1, shown |-> 0]
  /\ lastStep = Step("Init", 0)

Next ==
  \/ \E e \in FormEmails, o \in OptionValues : Submit(e, o)
  \/ \E c \in 1..Len(Catalogue), r \in 1..MaxRoster : ClickDelete(c, r)
  \/ \E i \in DOMAIN requests : ServerList(i)
  \/ \E i \in DOMAIN requests : ServerSignup(i)
  \/ \E i \in DOMAIN requests : ServerUnregister(i)
  \/ \E i \in DOMAIN requests : SignupSucceeds(i)
  \/ \E i \in DOMAIN requests : SignupRejected(i)
  \/ \E i \in DOMAIN requests : SignupFails(i)
  \/ \E i \in DOMAIN requests : UnregisterSucceeds(i)
  \/ \E i \in DOMAIN requests : UnregisterRejected(i)
  \/ \E i \in DOMAIN requests : UnregisterFails(i)
  \/ \E i \in DOMAIN requests : LoadRenders(i)
  \/ \E i \in DOMAIN requests : LoadFails(i)
  \/ \E i \in DOMAIN requests, d \in Details : ServerReject(i, d)
  \/ SignupResumes
  \/ TimerFires

Spec == Init /\ [][Next]_vars

\* ==================================================================== claims
Did(act) == lastStep.act = act

\* The handler steps that end a signup or an unregister without success.
RejectedActs == {"SignupRejected", "UnregisterRejected"}
FailedActs == {"SignupFails", "UnregisterFails"}

\* A handler that has yet to reach its setTimeout: a signup handler waiting
\* for its reload, or about to resume.
TimerStillToCome ==
  \/ microtask # 0
  \/ \E i \in DOMAIN requests : requests[i].kind = "GET" /\ requests[i].awaited

\* C1: every status message set by a signup or unregister action is hidden
\* again within one timer period: whenever the message is visible, a hide
\* timer is pending or is still to be started by the handler that set it.
C1_VisibleMessageHasHideTimer ==
  ~messageDiv.hidden => (timers # <<>> \/ TimerStillToCome)

\* C2: a render shows one card per key of the response and one option per
\* key after a single placeholder, whatever was rendered before.
C2_OneCardAndOptionPerActivity ==
  [][\A i \in DOMAIN requests :
       (lastStep'.act = "LoadRenders" /\ lastStep'.id = i) =>
         LET activities == requests[i].resp.activities IN
           /\ activitiesList'.kind = "cards"
           /\ Len(activitiesList'.cards) = Len(activities)
           /\ Len(activitySelect') = Len(activities) + 1
           /\ activitySelect'[1] = ""
           /\ \A k \in 1..Len(activities) :
                /\ activitiesList'.cards[k].name = activities[k].name
                /\ activitySelect'[k + 1] = activities[k].name]_vars

\* A reload rendered two activities over an earlier state of the page.
C2_Witness ==
  /\ Did("LoadRenders") /\ lastStep.id # InitLoad
  /\ Len(activitiesList.cards) = 2 /\ Len(activitySelect) = 3

\* C3: processing a successful signup response empties the email field;
\* processing a rejection or a transport failure leaves it as it was.
C3_EmailClearedOnlyOnSuccess ==
  [][/\ lastStep'.act = "SignupSucceeds" => emailField' = ""
     /\ lastStep'.act \in {"SignupRejected", "SignupFails"} =>
          emailField' = emailField]_vars

\* A signup sent with a non-empty email succeeded and the field is empty.
C3_Witness ==
  /\ Did("SignupSucceeds")
  /\ requests[lastStep.id].email # ""
  /\ emailField = ""

\* The rows on display at the click, less the first row of the clicked
\* card that shows the clicked participant.
WithoutTarget(shown, target) ==
  LET c == target[1]
      p == shown[c].rows[target[2]]
  IN [shown EXCEPT ![c].rows = RemoveAt(@, FirstIndex(@, p))]

\* C4 as stated: once the reload triggered by a successful unregister has
\* completed, the rows on display are those shown at the click less the
\* targeted row.
C4_ReloadShowsAllButTarget ==
  [][\A i \in DOMAIN requests :
       (/\ lastStep'.act \in {"LoadRenders", "LoadFails"} /\ lastStep'.id = i
        /\ requests[i].handler = "unregister") =>
         RowsOfCards(activitiesList'.cards)
           = WithoutTarget(requests[i].shown, requests[i].target)]_vars

\* C4 amended: when that reload renders, the rows on display are the
\* rosters of its response; and if the rosters the server held at the
\* removal were those on display at the click and were not changed again
\* before the reload was answered, they are the rows shown at the click less
\* one row of the target participant.
C4_UndisturbedReloadShowsAllButTarget ==
  [][\A i \in DOMAIN requests :
       (/\ lastStep'.act = "LoadRenders" /\ lastStep'.id = i
        /\ requests[i].handler = "unregister") =>
         /\ RowsOfCards(activitiesList'.cards)
              = RowsOfCollection(requests[i].resp.activities)
         /\ lastStep'.undisturbed =>
              RowsOfCards(activitiesList'.cards)
                = WithoutTarget(requests[i].shown, requests[i].target)]_vars

\* An undisturbed reload rendered and other rows are still on display.
C4_Witness ==
  /\ Did("LoadRenders") /\ lastStep.undisturbed
  /\ \E k \in 1..Len(activitiesList.cards) :
       Len(activitiesList.cards[k].rows) > 0

\* C5: a failed load puts the failure notice in the list, leaves the
\* options and the selection as they were, and sends nothing.
C5_FailedLoadKeepsSelect ==
  [][\A i \in DOMAIN requests :
       (lastStep'.act = "LoadFails" /\ lastStep'.id = i) =>
         /\ activitiesList' = FailureNotice
         /\ activitySelect' = activitySelect
         /\ selected' = selected
         /\ requests' = Without(requests, i)]_vars

\* A load failed on a page whose selection control already had activities.
C5_Witness ==
  /\ Did("LoadFails")
  /\ activitiesList.kind = "failed"
  /\ Len(activitySelect) > 1

\* C6 as stated: every failure path, that of a load included, ends with the
\* status message set and visible.
C6_EveryFailureSetsMessage ==
  [][lastStep'.act \in RejectedActs \cup FailedActs \cup {"LoadFails"} =>
       /\ ~messageDiv'.hidden
       /\ messageDiv'.className = "error"]_vars

\* C6 amended: a rejected or failed signup or unregister ends with its error
\* message visible; a failed load leaves the message box as it was and shows
\* the failure notice in the list; after any of them no request of that
\* handler is left and the event loop takes the next event (at most after
\* resuming the signup handler that waited for the load).
C6_FailuresReportedAndSurvivable ==
  [][\A i \in DOMAIN requests :
       /\ (lastStep'.act \in RejectedActs \cup FailedActs /\ lastStep'.id = i) =>
            /\ messageDiv'.owner = i
            /\ ~messageDiv'.hidden
            /\ messageDiv'.className = "error"
            /\ microtask' = 0
            /\ activitiesList' = activitiesList
            /\ requests' = Without(requests, i)
       /\ (lastStep'.act = "LoadFails" /\ lastStep'.id = i) =>
            /\ messageDiv' = messageDiv
            /\ activitiesList' = FailureNotice
            /\ (microtask' # 0 => microtask' = i /\ requests[i].awaited)
            /\ requests' = Without(requests, i)]_vars

\* A handler's failure was reported while another request was in flight,
\* which the client goes on to process.
C6_Witness ==
  /\ lastStep.act \in FailedActs
  /\ messageDiv.owner = lastStep.id /\ ~messageDiv.hidden
  /\ microtask = 0
  /\ requests # << >>

\* C7 as stated: a rejection shows, as an error, the detail verbatim whenever
\* the response carries one, else the action's fallback, and reloads nothing.
C7_RejectionShowsDetailVerbatim ==
  [][\A i \in DOMAIN requests :
       (lastStep'.act \in RejectedActs /\ lastStep'.id = i) =>
         LET detail == requests[i].resp.detail
             fallback == IF requests[i].kind = "POST"
                         THEN "An error occurred" ELSE "Failed to unregister"
         IN /\ messageDiv'.className = "error"
            /\ messageDiv'.textContent =
                 (IF detail # <<>> THEN detail[1] ELSE fallback)
            /\ requests' = Without(requests, i)]_vars

\* C7 amended: a rejection shows, as an error, the detail verbatim when the
\* response carries a non-empty one, and the action's fallback when the
\* detail is absent or empty; it reloads nothing.
C7_RejectionShowsNonEmptyDetail ==
  [][\A i \in DOMAIN requests :
       (lastStep'.act \in RejectedActs /\ lastStep'.id = i) =>
         LET detail == requests[i].resp.detail
             fallback == IF requests[i].kind = "POST"
                         THEN "An error occurred" ELSE "Failed to unregister"
         IN /\ messageDiv'.className = "error"
            /\ ~messageDiv'.hidden
            /\ messageDiv'.textContent =
                 (IF detail \notin {<<>>, <<"">>} THEN detail[1] ELSE fallback)
            /\ requests' = Without(requests, i)]_vars

\* An unregister was rejected with a detail, which is on display.
C7_Witness ==
  /\ Did("UnregisterRejected")
  /\ messageDiv.textContent = "Activity is full"
  /\ messageDiv.className = "error"

\* C8: a transport failure of a signup or unregister ends the handler with
\* the action's generic error message visible and nothing sent.
C8_TransportFailureReported ==
  [][\A i \in DOMAIN requests :
       (lastStep'.act \in FailedActs /\ lastStep'.id = i) =>
         /\ messageDiv'.className = "error"
         /\ ~messageDiv'.hidden
         /\ messageDiv'.textContent =
              (IF requests[i].kind = "POST"
               THEN "Failed to sign up. Please try again."
               ELSE "Failed to unregister. Please try again.")
         /\ requests' = Without(requests, i)
         /\ microtask' = 0]_vars

\* An unregister failed in transport after the server had removed the
\* participant; the generic message is on display.
C8_Witness ==
  /\ Did("UnregisterFails")
  /\ messageDiv.textContent = "Failed to unregister. Please try again."
  /\ ~messageDiv.hidden

\* The handler steps that process the outcome of a signup or an unregister.
OutcomeActs ==
  {"SignupSucceeds", "UnregisterSucceeds"} \cup RejectedActs \cup FailedActs

\* Handler i has a GET of the collection just sent among `reqs`.
ReloadingIn(reqs, i) ==
  /\ i \in DOMAIN reqs
  /\ reqs[i].kind = "GET" /\ reqs[i].status = "sent"

\* C9 as stated: every signup or unregister action, whatever its outcome,
\* is followed by a GET of the collection.
C9_EveryActionReloads ==
  [][lastStep'.act \in OutcomeActs => ReloadingIn(requests', lastStep'.id)]_vars

\* C9 amended: the collection is requested on load and by every successful
\* signup or unregister, in the step that processes the success; a rejected
\* or failed one requests nothing; a request that is answered and parsed
\* rebuilds the list and the selection control.
C9_SuccessfulActionsReload ==
  /\ ReloadingIn(requests, InitLoad)
  /\ [][\A i \in DOMAIN requests :
          /\ (lastStep'.act \in {"SignupSucceeds", "UnregisterSucceeds"}
                 /\ lastStep'.id = i) => ReloadingIn(requests', i)
          /\ (lastStep'.act \in RejectedActs \cup FailedActs
                 /\ lastStep'.id = i) => requests' = Without(requests, i)
          /\ (lastStep'.act = "LoadRenders" /\ lastStep'.id = i) =>
               /\ activitiesList'.kind = "cards"
               /\ Len(activitiesList'.cards) = Len(requests[i].resp.activities)
               /\ Len(activitySelect') = Len(requests[i].resp.activities) + 1]_vars

\* A successful unregister has its reload in flight.
C9_Witness ==
  /\ Did("UnregisterSucceeds")
  /\ ReloadingIn(requests, lastStep.id)

MaxParticipantsOf(name) ==
  LET k == CHOOSE k \in 1..Len(Catalogue) : Catalogue[k].name = name
  IN Catalogue[k].max_participants

\* C10: every card on display shows max_participants less the number of its
\* participant rows, below zero when the roster exceeds the maximum.
C10_SpotsLeftExact ==
  \A k \in 1..Len(activitiesList.cards) :
    LET card == activitiesList.cards[k] IN
      card.spotsLeft = MaxParticipantsOf(card.name) - Len(card.rows)

\* An over-admitted activity is on display with a negative value.
C10_Witness ==
  \E k \in 1..Len(activitiesList.cards) :
    /\ activitiesList.cards[k].spotsLeft < 0
    /\ Len(activitiesList.cards[k].rows)
         > MaxParticipantsOf(activitiesList.cards[k].name)

\* C11: a render gives an activity without participants one placeholder row
\* and no delete control, and an activity with n participants n rows, one
\* per element of the sequence in its order, each with a delete control,
\* and no placeholder.
C11_RowsFollowParticipants ==
  [][\A i \in DOMAIN requests :
       (lastStep'.act = "LoadRenders" /\ lastStep'.id = i) =>
         \A k \in 1..Len(requests[i].resp.activities) :
           LET participants == requests[i].resp.activities[k].participants
               card == activitiesList'.cards[k]
           IN /\ card.rows = participants
              /\ Cardinality(DeleteControls(card)) = Len(participants)
              /\ card.placeholder = (Len(participants) = 0)]_vars

\* A render left one card with the placeholder and one with two rows.
C11_Witness ==
  /\ Did("LoadRenders")
  /\ \E k \in 1..Len(activitiesList.cards) :
       /\ activitiesList.cards[k].placeholder
       /\ DeleteControls(activitiesList.cards[k]) = {}
  /\ \E k \in 1..Len(activitiesList.cards) :
       /\ Len(activitiesList.cards[k].rows) = 2
       /\ ~activitiesList.cards[k].placeholder

\* C12: no step takes a pending hide timer away except its own expiry, and
\* an expiring timer hides the message whichever action set it; so the timer
\* of an earlier action hides the message of a later one whose own timer is
\* still pending.
C12_TimersNeverCancelled ==
  [][/\ \/ timers' = timers
        \/ \E i \in 1..MaxEvents : timers' = Append(timers, i)
        \/ lastStep'.act = "TimerFires" /\ timers # <<>>
             /\ timers' = Tail(timers) /\ lastStep'.id = Head(timers)
     /\ lastStep'.act = "TimerFires" =>
          /\ messageDiv'.hidden
          /\ messageDiv'.owner = messageDiv.owner
          /\ messageDiv'.textContent = messageDiv.textContent]_vars

\* The timer of one action has just hidden the message of another, set
\* later, whose own timer is still pending.
C12_Witness ==
  /\ Did("TimerFires")
  /\ messageDiv.hidden
  /\ messageDiv.owner # lastStep.id
  /\ timers # <<>>
  /\ timers[Len(timers)] = messageDiv.owner

\* C13: a response that arrives and parses is rendered whatever else is in
\* flight and however old its request: the views then show that response,
\* also when they were built from a later call, and no other request is
\* dropped.
C13_LastArrivalWins ==
  [][\A i \in DOMAIN requests :
       (lastStep'.act = "LoadRenders" /\ lastStep'.id = i) =>
         /\ activitiesList'.kind = "cards"
         /\ RowsOfCards(activitiesList'.cards)
              = RowsOfCollection(requests[i].resp.activities)
         /\ Tail(activitySelect')
              = [k \in 1..Len(requests[i].resp.activities) |->
                   requests[i].resp.activities[k].name]
         /\ loads'.shown = requests[i].issued
         /\ requests' = Without(requests, i)]_vars

\* The last response to arrive belonged to an earlier call than the one on
\* display: with nothing left in flight, the views show rosters the server
\* no longer holds.
C13_Witness ==
  /\ Did("LoadRenders") /\ lastStep.stale
  /\ loads.shown < loads.issued
  /\ \A i \in DOMAIN requests : requests[i].kind # "GET"
  /\ RowsOfCards(activitiesList.cards) # RowsOfCollection(server)

\* C14: a click on the delete control of row r of card c sends one request
\* and no other, a DELETE whose URL decodes to the name of card c and the
\* participant of row r as they are on display, whatever the server holds.
C14_ClickSendsCapturedPair ==
  [][\A i \in 1..MaxEvents :
       (lastStep'.act = "ClickDelete" /\ lastStep'.id = i) =>
         LET sent == requests'[i]
             card == activitiesList.cards[sent.target[1]]
         IN /\ DOMAIN requests' = DOMAIN requests \cup {i}
            /\ i \notin DOMAIN requests
            /\ \A j \in DOMAIN requests : requests'[j] = requests[j]
            /\ sent.kind = "DELETE" /\ sent.status = "sent"
            /\ PercentDecode(sent.activity) = card.name
            /\ PercentDecode(sent.email) = card.rows[sent.target[2]]
            /\ server' = server]_vars

\* A click on a row whose participant the server has already removed: the
\* DELETE for that participant is in flight all the same.
C14_Witness ==
  /\ Did("ClickDelete")
  /\ LET sent == requests[lastStep.id] IN
       /\ sent.kind = "DELETE"
       /\ \E k \in IndexOf(server, PercentDecode(sent.activity)) :
            PercentDecode(sent.email) \notin Range(server[k].participants)

\* C15: a successful signup shows its message at once and starts its hide
\* timer only when its reload has completed, rendered or failed; a
\* successful unregister starts its timer in the task that requests the
\* reload. So no timer of a signup is pending while its reload is in flight.
C15_SignupTimerAfterReload ==
  /\ [](\A i \in DOMAIN requests :
          (requests[i].kind = "GET" /\ requests[i].awaited) =>
            i \notin Range(timers))
  /\ [][\A i \in 1..MaxEvents :
          /\ (lastStep'.act = "SignupSucceeds" /\ lastStep'.id = i) =>
               /\ ~messageDiv'.hidden /\ messageDiv'.owner = i
               /\ messageDiv'.className = "success"
               /\ timers' = timers
               /\ ReloadingIn(requests', i) /\ requests'[i].awaited
          /\ (lastStep'.act = "SignupResumes" /\ lastStep'.id = i) =>
               /\ microtask = i /\ i \notin DOMAIN requests
               /\ timers' = Append(timers, i)
          /\ (lastStep'.act = "UnregisterSucceeds" /\ lastStep'.id = i) =>
               /\ ~messageDiv'.hidden /\ messageDiv'.owner = i
               /\ timers' = Append(timers, i)
               /\ ReloadingIn(requests', i) /\ ~requests'[i].awaited]_vars

\* A signup handler has just started its timer after its reload failed, its
\* success message having stayed on display throughout.
C15_Witness ==
  /\ Did("SignupResumes")
  /\ activitiesList.kind = "failed"
  /\ ~messageDiv.hidden /\ messageDiv.owner = lastStep.id
  /\ messageDiv.className = "success"
  /\ lastStep.id \in Range(timers)

\* The names on the cards, in order.
CardNames(cards) == [k \in 1..Len(cards) |-> cards[k].name]

\* C16: while the list shows cards, their names are the options after the
\* placeholder, in order; the two views change only in a render, which
\* rebuilds both from the one response it handles; so under the failure
\* notice the options are those of the last response rendered.
C16_ListAndSelectAgree ==
  /\ [](/\ Len(activitySelect) >= 1 /\ Head(activitySelect) = ""
        /\ activitiesList.kind = "cards" =>
             CardNames(activitiesList.cards) = Tail(activitySelect)
        /\ activitiesList.kind = "loading" => activitySelect = <<"">>)
  /\ [][(\/ activitySelect' # activitySelect
         \/ activitiesList'.kind = "cards" /\ activitiesList' # activitiesList)
          => \E i \in DOMAIN requests :
               /\ lastStep'.act = "LoadRenders" /\ lastStep'.id = i
               /\ LET names == [k \in 1..Len(requests[i].resp.activities) |->
                                  requests[i].resp.activities[k].name]
                  IN /\ activitiesList'.kind = "cards"
                     /\ CardNames(activitiesList'.cards) = names
                     /\ activitySelect' = <<"">> \o names]_vars
  /\ [][activitiesList'.kind = "failed" =>
          activitySelect' = activitySelect]_vars

\* The failure notice is on display over the options of an earlier render,
\* one of which the user has since selected.
C16_Witness ==
  /\ activitiesList.kind = "failed"
  /\ Tail(activitySelect) = <<"Chess Club", "Gym Class">>
  /\ selected = "Gym Class"

\* C17: a render leaves the placeholder selected whatever was selected
\* before, and a failed load leaves the selection as it was; neither
\* touches the email field.
C17_RenderResetsSelection ==
  [][/\ lastStep'.act = "LoadRenders" =>
          selected' = "" /\ emailField' = emailField
     /\ lastStep'.act = "LoadFails" =>
          selected' = selected /\ emailField' = emailField]_vars

\* The reload of a successful unregister rendered while the form held an
\* email and a selected activity: the selection is gone, the email is not.
C17_Witness ==
  /\ Did("LoadRenders") /\ lastStep.undisturbed
  /\ lastStep.was # "" /\ selected = ""
  /\ emailField # ""

====
